---- MODULE Spec2Model ----
(***************************************************************************)
(* A model of server.py: the accept loop of TCPServer.start with recvall,  *)
(* the request parser HTTPRequest.doParse, the multipart decoder           *)
(* FormData.doParse and the five endpoint handlers of HTTPServer.           *)
(*                                                                         *)
(* Bytes and text are sequences of one-character strings, so that every    *)
(* split, strip and prefix test is computed character by character as the  *)
(* Python code computes it.  All the bytes used are ASCII, where           *)
(* bytes.decode() and str.encode() map each byte to the same character.    *)
(***************************************************************************)
EXTENDS Integers, Sequences, FiniteSets, TLC

VARIABLES
    pc,         \* position of TCPServer.start in its loop
    sockets,    \* one entry per accepted connection: "open" or "closed"
    stream,     \* the bytes the peer of the current connection writes
    rcvd,       \* how many bytes of stream sock.recv has handed over
    fragments,  \* recvall's list of chunks
    lastRecv,   \* outcome of the latest sock.recv call
    data,       \* the buffer recvall returned / the parser's input
    response,   \* outcome of handle_request: a response or an exception
    files,      \* the upload directory: file name -> content
    request,    \* outcome of HTTPRequest(data)
    upload,     \* the multipart message a client composed
    boundary,   \* the boundary token handed to FormData
    fd          \* outcome of FormData(data, boundary)

vars == <<pc, sockets, stream, rcvd, fragments, lastRecv, data, response,
          files, request, upload, boundary, fd>>

----------------------------------------------------------------------------
(* Bounds of the model.                                                    *)

MaxPathLen == 3
MaxQueryPieces == 2
MaxHeaders == 1
MaxParts == 2
MaxConns == 2
MaxChunks == 2
MaxNumber == 12
MaxNegative == 3

----------------------------------------------------------------------------
(* Python's str / bytes operations.                                        *)

Take(s, n) == SubSeq(s, 1, n)
Drop(s, n) == SubSeq(s, n + 1, Len(s))

SetMin(S) == CHOOSE i \in S : \A j \in S : i <= j

startswith(s, p) == Len(p) <= Len(s) /\ Take(s, Len(p)) = p

endswith(s, p) == Len(p) <= Len(s) /\ Drop(s, Len(s) - Len(p)) = p

\* s.find(sub): the 0-based index of the first occurrence, -1 if there is none
find(s, sub) ==
    LET hits == {i \in 0..(Len(s) - Len(sub)) : SubSeq(s, i + 1, i + Len(sub)) = sub}
    IN  IF hits = {} THEN -1 ELSE SetMin(hits)

\* sub in s
contains(s, sub) == find(s, sub) # -1

\* s.split(sep, maxsplit); maxsplit = -1 puts no limit on the splits
RECURSIVE split(_, _, _)
split(s, sep, maxsplit) ==
    LET i == find(s, sep)
    IN  IF maxsplit = 0 \/ i = -1
        THEN <<s>>
        ELSE <<Take(s, i)>> \o split(Drop(s, i + Len(sep)), sep, maxsplit - 1)

RECURSIVE lstrip(_, _)
lstrip(s, c) == IF s # <<>> /\ Head(s) = c THEN lstrip(Tail(s), c) ELSE s

RECURSIVE rstrip(_, _)
rstrip(s, c) ==
    IF s # <<>> /\ s[Len(s)] = c THEN rstrip(Take(s, Len(s) - 1), c) ELSE s

\* s.strip(c) for a single character c
strip(s, c) == rstrip(lstrip(s, c), c)

\* b''.join(list)
RECURSIVE join(_)
join(list) == IF list = <<>> THEN <<>> ELSE Head(list) \o join(Tail(list))

\* {k: v for k, v in pairs}: a later pair overwrites an earlier one
dict(pairs) ==
    [k \in {pairs[i][1] : i \in DOMAIN pairs} |->
        LET last == CHOOSE i \in DOMAIN pairs :
                        /\ pairs[i][1] = k
                        /\ \A j \in DOMAIN pairs : pairs[j][1] = k => j <= i
        IN  pairs[last][2]]

EmptyDict == dict(<<>>)

\* `for k, v in list` unpacks only lists whose every element has two items
unpackable(list) == \A i \in DOMAIN list : Len(list[i]) = 2

\* The outcome of a call: a returned value or a raised exception.
Return(v) == [exc |-> "none", val |-> v]
Raise(e) == [exc |-> e, val |-> <<>>]
NotCalled == [exc |-> "not called", val |-> <<>>]

\* `x = e` followed by the code that uses x: e is computed once and bound.
With(e, F(_)) == CHOOSE r \in {F(x) : x \in {e}} : TRUE

\* An Optional value: None or a value.
None == [isNone |-> TRUE, v |-> <<>>]
Some(x) == [isNone |-> FALSE, v |-> x]

----------------------------------------------------------------------------
(* Text constants.                                                         *)

SP == <<" ">>
SLASH == <<"/">>
QMARK == <<"?">>
AMP == <<"&">>
EQ == <<"=">>
COLON_SP == <<":", " ">>
CRLF == <<"\r", "\n">>
BLANK_LINE == CRLF
CRLFCRLF == CRLF \o CRLF
HTTP == <<"H", "T", "T", "P">>
HTTP11 == <<"H", "T", "T", "P", "/", "1", ".", "1">>
GET == <<"G", "E", "T">>

----------------------------------------------------------------------------
(* HTTPRequest.doParse                                                     *)

\* next(v for v in words if pred(v)): the first such word, none if exhausted
FirstWord(words, p) ==
    LET hits == {i \in DOMAIN words : startswith(words[i], p)}
    IN  IF hits = {} THEN None ELSE Some(words[SetMin(hits)])

\* [p.split('=', 1) for p in rest.split('&')]
QueryPairs(rest) ==
    LET ps == split(rest, AMP, -1)
    IN  [i \in DOMAIN ps |-> split(ps[i], EQ, 1)]

\* A variant that skips a header line without ': ' instead of failing on it.
HeaderPairsLenient(lines) ==
    LET kept == SelectSeq(lines, LAMBDA l : contains(l, COLON_SP))
    IN  [i \in DOMAIN kept |-> split(kept[i], COLON_SP, 1)]

\* [line.split(': ', 1) for line in [*headerlines]]
HeaderPairs(lines) == [i \in DOMAIN lines |-> split(lines[i], COLON_SP, 1)]

HTTPRequest_doParse(bytes) ==
    LET halves == split(bytes, CRLFCRLF, 1)
    IN  IF Len(halves) # 2 THEN Raise("ValueError")
        ELSE
        LET head == halves[1]
            body == halves[2]
            lines == split(head, CRLF, -1)
            request_line == Head(lines)
            headerlines == Tail(lines)
            words == split(request_line, SP, -1)
            method == words[1]
            token == FirstWord(words, SLASH)
        IN  IF token.isNone THEN Raise("StopIteration")
            ELSE
            LET uri == strip(token.v, "/")
                hasQuery == contains(uri, QMARK)
                cut == split(uri, QMARK, 1)
                endpoint == IF hasQuery THEN cut[1] ELSE uri
                qpairs == IF hasQuery THEN QueryPairs(cut[2]) ELSE <<>>
                vtoken == FirstWord(words, HTTP)
                http_version == IF vtoken.isNone THEN <<"1", ".", "1">>
                                ELSE Drop(vtoken.v, 5)
                hpairs == HeaderPairs(headerlines)
            IN  IF ~unpackable(qpairs) THEN Raise("ValueError")
                ELSE IF ~unpackable(hpairs) THEN Raise("ValueError")
                ELSE Return([method |-> method,
                             endpoint |-> endpoint,
                             qparams |-> IF hasQuery THEN Some(dict(qpairs)) ELSE None,
                             http_version |-> http_version,
                             headers |-> dict(hpairs),
                             body |-> body])

\* HTTPRequest(data)
HTTPRequest(bytes) == HTTPRequest_doParse(bytes)

----------------------------------------------------------------------------
(* FormData.doParse                                                        *)

DASHES == <<"-", "-">>

\* list[1:-1]
Inner(list) == IF Len(list) <= 2 THEN <<>> ELSE SubSeq(list, 2, Len(list) - 1)

\* [header.split(b': ') for header in tmpheaders.split(b'\r\n')[1:]]
PartHeaderPairs(tmpheaders) ==
    LET hs == Tail(split(tmpheaders, CRLF, -1))
    IN  [i \in DOMAIN hs |-> split(hs[i], COLON_SP, -1)]

\* A variant that takes a part without a blank line as a payload with no headers.
FormPartLenient(part) ==
    LET halves == split(part, CRLFCRLF, 1)
    IN  IF Len(halves) # 2
        THEN Return([headers |-> Some(EmptyDict), formbody |-> Some(part)])
        ELSE IF ~unpackable(PartHeaderPairs(halves[1])) THEN Raise("ValueError")
        ELSE Return([headers |-> Some(dict(PartHeaderPairs(halves[1]))),
                     formbody |-> Some(halves[2])])

\* one pass of the loop body: the attributes it sets, or the exception
FormPart(part) ==
    LET halves == split(part, CRLFCRLF, 1)
    IN  IF Len(halves) # 2 THEN Raise("ValueError")
        ELSE IF ~unpackable(PartHeaderPairs(halves[1])) THEN Raise("ValueError")
        ELSE Return([headers |-> Some(dict(PartHeaderPairs(halves[1]))),
                     formbody |-> Some(halves[2])])

\* for part in form_parts: each pass overwrites headers and formbody
RECURSIVE FormLoop(_, _)
FormLoop(form_parts, attrs) ==
    IF form_parts = <<>> THEN Return(attrs)
    ELSE LET pass == FormPart(Head(form_parts))
         IN  IF pass.exc # "none" THEN pass
             ELSE FormLoop(Tail(form_parts), pass.val)

FormData_doParse(bytes, bnd) ==
    FormLoop(Inner(split(bytes, DASHES \o bnd, -1)),
             [headers |-> None, formbody |-> None])

\* FormData(data, boundary)
FormData(bytes, bnd) == FormData_doParse(bytes, bnd)

----------------------------------------------------------------------------
(* More text constants.                                                    *)

POST == <<"P", "O", "S", "T">>
PUT == <<"P", "U", "T">>
DELETE == <<"D", "E", "L", "E", "T", "E">>
T_isPrime == <<"i", "s", "P", "r", "i", "m", "e">>
T_upload == <<"u", "p", "l", "o", "a", "d">>
T_rename == <<"r", "e", "n", "a", "m", "e">>
T_remove == <<"r", "e", "m", "o", "v", "e">>
T_download == <<"d", "o", "w", "n", "l", "o", "a", "d">>
T_number == <<"n", "u", "m", "b", "e", "r">>
T_oldFileName == <<"o", "l", "d", "F", "i", "l", "e", "N", "a", "m", "e">>
T_newName == <<"n", "e", "w", "N", "a", "m", "e">>
T_fileName == <<"f", "i", "l", "e", "N", "a", "m", "e">>
T_ContentType == <<"C", "o", "n", "t", "e", "n", "t", "-", "T", "y", "p", "e">>
T_ContentDisposition == <<"C", "o", "n", "t", "e", "n", "t", "-", "D", "i", "s", "p", "o", "s", "i", "t", "i", "o", "n">>
T_ContentTransferEncoding == <<"C", "o", "n", "t", "e", "n", "t", "-", "T", "r", "a", "n", "s", "f", "e", "r", "-", "E", "n", "c", "o", "d", "i", "n", "g">>
T_ContentLength == <<"C", "o", "n", "t", "e", "n", "t", "-", "L", "e", "n", "g", "t", "h">>
T_Server == <<"S", "e", "r", "v", "e", "r">>
T_KeremenciServer == <<"K", "e", "r", "e", "m", "e", "n", "c", "i", "S", "e", "r", "v", "e", "r">>
T_applicationJson == <<"a", "p", "p", "l", "i", "c", "a", "t", "i", "o", "n", "/", "j", "s", "o", "n">>
T_multipartFormData == <<"m", "u", "l", "t", "i", "p", "a", "r", "t", "/", "f", "o", "r", "m", "-", "d", "a", "t", "a">>
T_boundary == <<"b", "o", "u", "n", "d", "a", "r", "y">>
T_filename == <<"f", "i", "l", "e", "n", "a", "m", "e">>
T_attachmentFilename == <<"a", "t", "t", "a", "c", "h", "m", "e", "n", "t", ";", " ", "f", "i", "l", "e", "n", "a", "m", "e", "=", "\"">>
T_binary == <<"b", "i", "n", "a", "r", "y">>
T_None == <<"N", "o", "n", "e">>
T_textPlain == <<"t", "e", "x", "t", "/", "p", "l", "a", "i", "n">>
T_dotTxt == <<".", "t", "x", "t">>
T_files == <<"f", "i", "l", "e", "s">>
T_OK == <<"O", "K">>
T_NotFound == <<"N", "o", "t", " ", "F", "o", "u", "n", "d">>
T_BadRequest == <<"B", "a", "d", " ", "R", "e", "q", "u", "e", "s", "t">>
T_InternalServerError == <<"I", "n", "t", "e", "r", "n", "a", "l", " ", "S", "e", "r", "v", "e", "r", " ", "E", "r", "r", "o", "r">>
SEMI_SP == <<";", " ">>
SEMI == <<";">>
DOT == <<".">>
DQUOTE == <<"\"">>
LPAREN == <<"(">>
RPAREN == <<")">>
DASH == <<"-">>
PLUS == <<"+">>

----------------------------------------------------------------------------
(* Python's int(), str(), math.sqrt, os.path and mimetypes.                *)

Digits == <<"0", "1", "2", "3", "4", "5", "6", "7", "8", "9">>

IsDigit(c) == \E d \in DOMAIN Digits : Digits[d] = c

DigitValue(c) == (CHOOSE d \in DOMAIN Digits : Digits[d] = c) - 1

RECURSIVE DigitsValue(_)
DigitsValue(s) ==
    IF s = <<>> THEN 0
    ELSE 10 * DigitsValue(Take(s, Len(s) - 1)) + DigitValue(s[Len(s)])

IsDigits(s) == s # <<>> /\ \A i \in DOMAIN s : IsDigit(s[i])

\* int(s) for a str s: an optional sign and decimal digits, else ValueError.
\* (Surrounding whitespace and underscores between digits, which int() also
\* accepts, do not occur in the requests of this model.)
int(s) ==
    IF IsDigits(s) THEN Return(DigitsValue(s))
    ELSE IF startswith(s, PLUS) /\ IsDigits(Tail(s)) THEN Return(DigitsValue(Tail(s)))
    ELSE IF startswith(s, DASH) /\ IsDigits(Tail(s)) THEN Return(0 - DigitsValue(Tail(s)))
    ELSE Raise("ValueError")

\* str(n) for an int n
RECURSIVE NatStr(_)
NatStr(n) == IF n < 10 THEN <<Digits[n + 1]>> ELSE NatStr(n \div 10) \o <<Digits[(n % 10) + 1]>>

str(n) == IF n < 0 THEN DASH \o NatStr(0 - n) ELSE NatStr(n)

\* int(sqrt(num)) for num >= 0; sqrt raises ValueError for num < 0.
\* (For the numbers of this model the float square root is exact enough for
\* its integer part to be the integer square root.)
int_sqrt(num) ==
    IF num < 0 THEN Raise("ValueError")
    ELSE Return(CHOOSE r \in 0..num : r * r <= num /\ num < (r + 1) * (r + 1))

\* s.rfind(sub): the 0-based index of the last occurrence, -1 if there is none
rfind(s, sub) ==
    LET hits == {i \in 0..(Len(s) - Len(sub)) : SubSeq(s, i + 1, i + Len(sub)) = sub}
    IN  IF hits = {} THEN -1 ELSE CHOOSE i \in hits : \A j \in hits : j <= i

\* s[:k]
slice_to(s, k) ==
    IF k >= 0 THEN Take(s, IF k < Len(s) THEN k ELSE Len(s))
    ELSE Take(s, IF Len(s) + k > 0 THEN Len(s) + k ELSE 0)

\* os.path.splitext(p): split at the last dot that follows the last '/' and is
\* preceded there by a character other than a dot
splitext(p) ==
    LET sepIndex == rfind(p, SLASH)
        dotIndex == rfind(p, DOT)
    IN  IF dotIndex > sepIndex
           /\ \E f \in (sepIndex + 1)..(dotIndex - 1) : p[f + 1] # "."
        THEN <<Take(p, dotIndex), Drop(p, dotIndex)>>
        ELSE <<p, <<>>>>

\* os.path.join('files', name) and os.path.join(self.uploaddir, name) for the
\* names of this model, which hold no '/': the file `name` of the upload
\* directory.  The process runs in the directory of server.py, where the
\* relative path 'files' and self.uploaddir are the same directory.
files_path(name) == T_files \o SLASH \o name

\* mimetypes.guess_extension(type): the standard table's entry, None if unknown
guess_extension(type) == IF type = T_textPlain THEN Some(T_dotTxt) ELSE None

\* mimetypes.guess_type(path)[0]
guess_type(path) == IF splitext(path)[2] = T_dotTxt THEN Some(T_textPlain) ELSE None

\* '%s' % x for an Optional str
PyStr(opt) == IF opt.isNone THEN T_None ELSE opt.v

\* the directory with file k written or replaced
Put(d, k, v) == [x \in DOMAIN d \cup {k} |-> IF x = k THEN v ELSE d[x]]

\* the directory without file k
Del(d, k) == [x \in DOMAIN d \ {k} |-> d[x]]

----------------------------------------------------------------------------
(* HTTPServer: response_line, response_headers and the handlers.           *)
(* A handler's outcome is the response it returns or the exception it      *)
(* raises, with the upload directory as it leaves it.  A response is kept  *)
(* as the four byte strings the handler joins; the body of a JSON response *)
(* is kept as the dict that json.dumps encodes.                            *)

status_codes(code) ==
    CASE code = 200 -> T_OK
      [] code = 404 -> T_NotFound
      [] code = 400 -> T_BadRequest
      [] code = 500 -> T_InternalServerError

response_line(status_code) ==
    HTTP11 \o SP \o str(status_code) \o SP \o status_codes(status_code) \o CRLF

\* self.headers, in insertion order
server_headers == <<<<T_Server, T_KeremenciServer>>, <<T_ContentType, T_applicationJson>>>>

\* headers_copy.update(extra_headers): a present key keeps its place
RECURSIVE update(_, _)
update(pairs, extra) ==
    IF extra = <<>> THEN pairs
    ELSE LET k == Head(extra)[1]
             v == Head(extra)[2]
             at == {i \in DOMAIN pairs : pairs[i][1] = k}
         IN  update(IF at = {} THEN Append(pairs, <<k, v>>)
                    ELSE [i \in DOMAIN pairs |-> IF i \in at THEN <<k, v>> ELSE pairs[i]],
                    Tail(extra))

response_headers(extra_headers) ==
    LET headers_copy == update(server_headers, extra_headers)
    IN  join([i \in DOMAIN headers_copy |->
                 headers_copy[i][1] \o COLON_SP \o headers_copy[i][2] \o CRLF])

Json(d) == [kind |-> "json", dict |-> d, bytes |-> <<>>]
Bytes(b) == [kind |-> "bytes", dict |-> <<>>, bytes |-> b]

\* b''.join([response_line, response_headers, BLANK_LINE, respbody])
Response(status, extra_headers, respbody) ==
    [line |-> response_line(status),
     headers |-> response_headers(extra_headers),
     blank |-> BLANK_LINE,
     body |-> respbody]

Returns(resp, dir) == [exc |-> "none", val |-> resp, files |-> dir]
Raises(e, dir) == [exc |-> e, val |-> <<>>, files |-> dir]

\* request.qparams[key]
qparam(req, key) ==
    IF req.qparams.isNone THEN Raise("TypeError")
    ELSE IF key \notin DOMAIN req.qparams.v THEN Raise("KeyError")
    ELSE Return(req.qparams.v[key])

handle_is_prime(req, dir) ==
    With(qparam(req, T_number), LAMBDA text :
    With(IF text.exc = "none" THEN int(text.val) ELSE text, LAMBDA num :
        IF num.exc \in {"KeyError", "ValueError", "TypeError"}
        THEN Returns(Response(400, <<>>, Json([message |-> "Invalid parameter"])), dir)
        ELSE With(int_sqrt(num.val), LAMBDA root :
                 IF root.exc # "none" THEN Raises(root.exc, dir)
                 ELSE LET result == ~\E i \in 2..root.val : num.val % i = 0
                      IN  Returns(Response(200, <<>>,
                                           Json([number |-> num.val, isPrime |-> result])),
                                  dir))))

\* the while loop of handle_upload: <<the free name, the final i>>
RECURSIVE free_name(_, _, _)
free_name(filename, i, dir) ==
    IF filename \notin DOMAIN dir THEN <<filename, i>>
    ELSE LET fn == splitext(filename)[1]
             ext == splitext(filename)[2]
             stem == IF i = 1 THEN fn ELSE slice_to(fn, find(fn, LPAREN))
         IN  free_name(stem \o LPAREN \o str(i) \o RPAREN \o ext, i + 1, dir)

\* next(bstr.split('=')[1] for bstr in ctypelist if bstr.startswith('boundary'))
boundary_of(ctype) ==
    LET bstr == FirstWord(split(ctype, SEMI_SP, -1), T_boundary)
    IN  IF bstr.isNone THEN Raise("StopIteration")
        ELSE IF Len(split(bstr.v, EQ, -1)) < 2 THEN Raise("IndexError")
        ELSE Return(split(bstr.v, EQ, -1)[2])

\* [subheader.split('=',1)[1].strip('"') for subheader in
\*  fd.headers["Content-Disposition"].split('; ') if subheader.startswith('filename')][0]
filename_of(fdheaders) ==
    IF fdheaders.isNone THEN Raise("TypeError")
    ELSE IF T_ContentDisposition \notin DOMAIN fdheaders.v THEN Raise("KeyError")
    ELSE LET subs == SelectSeq(split(fdheaders.v[T_ContentDisposition], SEMI_SP, -1),
                               LAMBDA sub : startswith(sub, T_filename))
         IN  IF \E i \in DOMAIN subs : Len(split(subs[i], EQ, 1)) < 2 THEN Raise("IndexError")
             ELSE IF subs = <<>> THEN Raise("IndexError")
             ELSE Return(strip(split(subs[1], EQ, 1)[2], "\""))

\* mimetypes.guess_extension(fd.headers['Content-Type'].split(';',1)[0].strip())
extension_of(fdheaders) ==
    IF T_ContentType \notin DOMAIN fdheaders.v THEN Raise("KeyError")
    ELSE Return(guess_extension(strip(split(fdheaders.v[T_ContentType], SEMI, 1)[1], " ")))

handle_upload(req, dir) ==
    IF ~(/\ T_ContentType \in DOMAIN req.headers
         /\ contains(req.headers[T_ContentType], T_multipartFormData))
    THEN Returns(Response(400, <<>>, Json([message |-> "An error occurred"])), dir)
    ELSE
    With(boundary_of(req.headers[T_ContentType]), LAMBDA bnd :
    IF bnd.exc # "none" THEN Raises(bnd.exc, dir) ELSE
    With(FormData(req.body, bnd.val), LAMBDA form :
    IF form.exc # "none" THEN Raises(form.exc, dir) ELSE
    With(filename_of(form.val.headers), LAMBDA given :
    IF given.exc # "none" THEN Raises(given.exc, dir) ELSE
    With(extension_of(form.val.headers), LAMBDA extension :
    IF extension.exc # "none" THEN Raises(extension.exc, dir) ELSE
    IF extension.val.isNone THEN Raises("TypeError", dir) ELSE
    With(IF endswith(given.val, extension.val.v) THEN given.val
         ELSE given.val \o extension.val.v, LAMBDA named :
    With(free_name(named, 1, dir), LAMBDA free :
    LET filename == free[1]
        i == free[2]
    IN  Returns(Response(200, <<>>,
                    Json([message |->
                              IF i = 1 THEN "Successfully uploaded file"
                              ELSE "Successfully uploaded and renamed file as a file with the same name already exists",
                          uploadpath |-> files_path(filename)])),
                Put(dir, filename, form.val.formbody.v))))))))

handle_rename(req, dir) ==
    With(qparam(req, T_oldFileName), LAMBDA oldfn :
    With(qparam(req, T_newName), LAMBDA newfn :
        IF oldfn.exc = "TypeError" THEN Raises("TypeError", dir)
        ELSE IF oldfn.exc = "KeyError" \/ newfn.exc = "KeyError"
        THEN Returns(Response(400, <<>>, Json([message |-> "Invalid parameters"])), dir)
        ELSE IF oldfn.val \notin DOMAIN dir
        THEN Returns(Response(200, <<>>, Json([message |-> "File Not Found"])), dir)
        ELSE Returns(Response(500, <<>>,
                         Json([message |-> "Filename successfully changed",
                               oldpath |-> files_path(oldfn.val),
                               newpath |-> files_path(newfn.val)])),
                     Put(Del(dir, oldfn.val), newfn.val, dir[oldfn.val]))))

handle_remove(req, dir) ==
    With(qparam(req, T_fileName), LAMBDA fn :
        IF fn.exc = "TypeError" THEN Raises("TypeError", dir)
        ELSE IF fn.exc = "KeyError"
        THEN Returns(Response(400, <<>>, Json([message |-> "Missing filename parameter"])), dir)
        ELSE IF fn.val \notin DOMAIN dir
        THEN Returns(Response(200, <<>>, Json([message |-> "File Not Found"])), dir)
        ELSE Returns(Response(500, <<>>,
                         Json([message |-> "File successfully deleted",
                               filepath |-> files_path(fn.val)])),
                     Del(dir, fn.val)))

handle_download(req, dir) ==
    With(qparam(req, T_fileName), LAMBDA filename :
        IF filename.exc = "TypeError" THEN Raises("TypeError", dir)
        ELSE IF filename.exc = "KeyError"
        THEN Returns(Response(400, <<>>, Json([message |-> "Missing filename parameter"])), dir)
        ELSE IF filename.val \notin DOMAIN dir
        THEN Returns(Response(200, <<>>, Json([message |-> "File Not Found"])), dir)
        ELSE LET filesize == Len(dir[filename.val])
                 extra_headers ==
                     <<<<T_ContentDisposition, T_attachmentFilename \o filename.val \o DQUOTE>>,
                       <<T_ContentType, PyStr(guess_type(filename.val))>>,
                       <<T_ContentTransferEncoding, T_binary>>,
                       <<T_ContentLength, str(filesize)>>>>
             IN  Returns(Response(200, extra_headers, Bytes(dir[filename.val])), dir))

\* self.handlers: the keys, f'{method}-{endpoint}'
handler_key(method, endpoint) == method \o DASH \o endpoint

handle_request(bytes, dir) ==
    With(HTTPRequest(bytes), LAMBDA req :
        IF req.exc # "none" THEN Raises(req.exc, dir)
        ELSE With(req.val.method \o DASH \o req.val.endpoint, LAMBDA key :
                 IF key = handler_key(GET, T_isPrime) THEN handle_is_prime(req.val, dir)
                 ELSE IF key = handler_key(POST, T_upload) THEN handle_upload(req.val, dir)
                 ELSE IF key = handler_key(PUT, T_rename) THEN handle_rename(req.val, dir)
                 ELSE IF key = handler_key(DELETE, T_remove) THEN handle_remove(req.val, dir)
                 ELSE IF key = handler_key(GET, T_download) THEN handle_download(req.val, dir)
                 ELSE Returns(Response(404, <<>>, Json([message |-> "Not Found"])), dir)))

----------------------------------------------------------------------------
(* The requests the parser is applied to: a request line made of a method, *)
(* a URI token and a version token in either order, header lines, and the  *)
(* blank line with a body, or a header block cut short before it.          *)

\* every concatenation of at most n of the pieces
RECURSIVE Texts(_, _)
Texts(pieces, n) ==
    IF n = 0 THEN {<<>>}
    ELSE LET shorter == Texts(pieces, n - 1)
         IN  shorter \cup {t \o p : t \in shorter, p \in pieces}

\* every sequence of at most n elements of S
RECURSIVE SeqsUpTo(_, _)
SeqsUpTo(S, n) ==
    IF n = 0 THEN {<<>>}
    ELSE LET shorter == SeqsUpTo(S, n - 1)
         IN  shorter \cup {Append(t, x) : t \in shorter, x \in S}

PathTexts == Texts({SLASH, <<"x">>}, MaxPathLen)
QueryTexts ==
    {<<>>} \cup {QMARK \o q :
                  q \in Texts({<<"a", "=", "1">>, AMP, <<"x">>, SLASH}, MaxQueryPieces)}
UriTexts == {p \o q : p \in PathTexts, q \in QueryTexts}

RequestLines ==
    {GET \o SP \o u : u \in UriTexts}
    \cup {GET \o SP \o u \o SP \o HTTP11 : u \in UriTexts}
    \cup {GET \o SP \o HTTP11 \o SP \o u : u \in UriTexts}

HeaderLineTexts == {<<"A", ":", " ", "1">>, <<"B">>}
HeaderBlocks ==
    {join([i \in DOMAIN ls |-> CRLF \o ls[i]]) :
        ls \in SeqsUpTo(HeaderLineTexts, MaxHeaders)}

BodyTexts == {<<>>, <<"h", "i">>}

\* what follows the header lines: a blank line and a body, or no blank line
TailTexts == {CRLFCRLF \o b : b \in BodyTexts} \cup {CRLF}

----------------------------------------------------------------------------
(* The parser applied to one buffer.                                       *)

Idle ==
    /\ pc = "accept"
    /\ sockets = <<>>
    /\ stream = <<>>
    /\ rcvd = 0
    /\ fragments = <<>>
    /\ lastRecv = "none"
    /\ response = NotCalled
    /\ files = EmptyDict

InitParse ==
    /\ Idle
    /\ \E l \in RequestLines, h \in HeaderBlocks, t \in TailTexts : data = l \o h \o t
    /\ request = NotCalled
    /\ upload = <<>>
    /\ boundary = <<>>
    /\ fd = NotCalled

ParseRequest ==
    /\ request = NotCalled
    /\ request' = HTTPRequest(data)
    /\ UNCHANGED <<pc, sockets, stream, rcvd, fragments, lastRecv, data,
                   response, files, upload, boundary, fd>>

NextParse == ParseRequest

SpecParse == InitParse /\ [][NextParse]_vars

----------------------------------------------------------------------------
(* The structure of a buffer, read off the bytes themselves.               *)

HasDelimiter(bytes) == contains(bytes, CRLFCRLF)

\* the text before the first blank line (the whole buffer if there is none)
HeadOf(bytes) == IF HasDelimiter(bytes) THEN Take(bytes, find(bytes, CRLFCRLF)) ELSE bytes

HeadLines(bytes) == split(HeadOf(bytes), CRLF, -1)

RequestLineTokens(bytes) == split(Head(HeadLines(bytes)), SP, -1)

HasPathToken(bytes) ==
    LET ws == RequestLineTokens(bytes)
    IN  \E i \in DOMAIN ws : startswith(ws[i], SLASH)

\* the URI token as it stands on the wire, slashes included
RawUri(bytes) ==
    LET ws == RequestLineTokens(bytes)
    IN  ws[SetMin({i \in DOMAIN ws : startswith(ws[i], SLASH)})]

HasQueryString(bytes) == HasPathToken(bytes) /\ contains(RawUri(bytes), QMARK)

\* the query string on the wire: everything after the first '?' of the URI
RawQueryString(bytes) == Drop(RawUri(bytes), find(RawUri(bytes), QMARK) + 1)

BadQueryPair(bytes) ==
    /\ HasQueryString(bytes)
    /\ LET pairs == split(RawQueryString(bytes), AMP, -1)
       IN  \E i \in DOMAIN pairs : ~contains(pairs[i], EQ)

BadHeaderLine(bytes) ==
    LET lines == HeadLines(bytes)
    IN  \E i \in 2..Len(lines) : ~contains(lines[i], COLON_SP)

StructuralViolation(bytes) ==
    \/ ~HasDelimiter(bytes)
    \/ ~HasPathToken(bytes)
    \/ BadHeaderLine(bytes)
    \/ BadQueryPair(bytes)

Parsed == request.exc = "none"
ParseFailed == request.exc \notin {"none", "not called"}

\* C4: for every request that parses, the stored endpoint neither begins nor
\* ends with '/', and its query parameters are those of the query string as
\* it stands on the wire: stripping slashes has altered no parameter value.
C4_EndpointStrippedQueryIntact ==
    Parsed =>
        /\ ~startswith(request.val.endpoint, SLASH)
        /\ ~endswith(request.val.endpoint, SLASH)
        /\ request.val.qparams =
               IF HasQueryString(data)
               THEN Some(dict(QueryPairs(RawQueryString(data))))
               ELSE None

\* C5: the parser raises, and yields no parsed request, for every buffer with
\* no blank-line delimiter, no request-line token beginning with '/', a header
\* line without ': ' or a query pair without '='.
C5_StructuralViolationRaises ==
    (request # NotCalled /\ StructuralViolation(data)) => ParseFailed

\* a buffer whose only violation is a query pair without '=' has been refused
C5_Witness ==
    /\ ParseFailed
    /\ BadQueryPair(data)
    /\ HasDelimiter(data) /\ HasPathToken(data) /\ ~BadHeaderLine(data)

----------------------------------------------------------------------------
(* The multipart bodies the decoder is applied to.  A client composes a    *)
(* message as RFC 2046 lays it out: an optional preamble, then for each    *)
(* part the delimiter line, the header lines, a blank line and the         *)
(* payload, the line break that precedes the next delimiter, and at the    *)
(* end the closing delimiter.  The malformed variants leave out the blank  *)
(* line, the line break before the delimiter or the closing delimiter, or  *)
(* carry a header line without ': '.                                       *)

PartHeaderTexts == {<<>>, <<<<"A", ":", " ", "b">>>>, <<<<"A">>>>}
PayloadTexts == {<<>>, <<"h", "i">>, <<"h">> \o CRLFCRLF \o <<"i">>}

PartSpecs ==
    [hdr : PartHeaderTexts, sep : BOOLEAN, payload : PayloadTexts, crlf : BOOLEAN]

EncodePart(p) ==
    CRLF \o join([i \in DOMAIN p.hdr |-> p.hdr[i] \o CRLF])
         \o (IF p.sep THEN CRLF ELSE <<>>)
         \o p.payload
         \o (IF p.crlf THEN CRLF ELSE <<>>)

Uploads ==
    [pre : {<<>>, <<"p">>}, parts : SeqsUpTo(PartSpecs, MaxParts), closed : BOOLEAN]

EncodeUpload(u, bnd) ==
    u.pre \o join([i \in DOMAIN u.parts |-> DASHES \o bnd \o EncodePart(u.parts[i])])
          \o (IF u.closed THEN DASHES \o bnd \o DASHES ELSE <<>>)

InitForm ==
    /\ Idle
    /\ request = NotCalled
    /\ upload \in Uploads
    /\ boundary = <<"X">>
    /\ data = EncodeUpload(upload, boundary)
    /\ fd = NotCalled

DecodeForm ==
    /\ fd = NotCalled
    /\ fd' = FormData(data, boundary)
    /\ UNCHANGED <<pc, sockets, stream, rcvd, fragments, lastRecv, data,
                   response, files, request, upload, boundary>>

NextForm == DecodeForm

SpecForm == InitForm /\ [][NextForm]_vars

Decoded == fd.exc = "none"
DecodeFailed == fd.exc \notin {"none", "not called"}

\* the parts that stand between two occurrences of the delimiter
Enclosed(u) == IF u.closed THEN DOMAIN u.parts ELSE 1..(Len(u.parts) - 1)

LacksBlankLine(p) == ~contains(EncodePart(p), CRLFCRLF)

\* a message of exactly one part with a header block and a payload
SinglePart(u) ==
    /\ Len(u.parts) = 1
    /\ u.closed
    /\ u.parts[1].hdr = <<<<"A", ":", " ", "b">>>>
    /\ u.parts[1].sep
    /\ u.parts[1].crlf

\* C3: a body with exactly one part, header block and payload P, decodes to
\* a payload equal to P byte for byte.
C3_SinglePartPayloadExact ==
    (fd # NotCalled /\ SinglePart(upload)) =>
        (Decoded /\ fd.val.formbody = Some(upload.parts[1].payload))

\* C6 as claimed: the decoder raises whenever the boundary token does not
\* occur in the body, and whenever a part lacks its own blank-line delimiter.
C6_Original ==
    (/\ fd # NotCalled
     /\ \/ ~contains(data, boundary)
        \/ \E i \in Enclosed(upload) : LacksBlankLine(upload.parts[i]))
    => DecodeFailed

\* C6 as amended: the decoder raises whenever a part enclosed between two
\* occurrences of the delimiter lacks its own blank-line delimiter; when the
\* delimiter does not occur in the body it returns normally, with no part
\* decoded: headers and formbody stay None.
C6_Amended ==
    fd # NotCalled =>
        /\ (\E i \in Enclosed(upload) : LacksBlankLine(upload.parts[i]))
              => DecodeFailed
        /\ ~contains(data, DASHES \o boundary)
              => fd = Return([headers |-> None, formbody |-> None])

\* a closed message whose only part has no blank line has been refused
C6_Witness ==
    /\ DecodeFailed
    /\ Len(upload.parts) = 1
    /\ upload.closed
    /\ LacksBlankLine(upload.parts[1])

----------------------------------------------------------------------------
(* The requests clients send to the server.                                *)

A_TXT == <<"a", ".", "t", "x", "t">>
B_TXT == <<"b", ".", "t", "x", "t">>
FileNames == {A_TXT, B_TXT}

Numbers == (0 - MaxNegative)..MaxNumber
NumberTexts == {str(n) : n \in Numbers} \cup {<<"x">>, <<"+", "7">>}

RequestOf(method, uri, headerblock, body) ==
    method \o SP \o uri \o SP \o HTTP11 \o headerblock \o CRLFCRLF \o body

Query(uri, k, v) == uri \o QMARK \o k \o EQ \o v

PrimeRequest(text) == RequestOf(GET, Query(SLASH \o T_isPrime, T_number, text), <<>>, <<>>)

RenameRequest(old, new) ==
    RequestOf(PUT, Query(SLASH \o T_rename, T_oldFileName, old) \o AMP \o T_newName \o EQ \o new,
              <<>>, <<>>)

RemoveRequest(name) == RequestOf(DELETE, Query(SLASH \o T_remove, T_fileName, name), <<>>, <<>>)

DownloadRequest(name) == RequestOf(GET, Query(SLASH \o T_download, T_fileName, name), <<>>, <<>>)

\* a request for an endpoint with no query string, or with a query string
\* that lacks the parameter the handler needs
BareRequests ==
    {RequestOf(m, SLASH \o e \o q, <<>>, <<>>) :
        m \in {GET, PUT, DELETE},
        e \in {T_isPrime, T_rename, T_remove, T_download},
        q \in {<<>>, QMARK \o T_oldFileName \o EQ \o A_TXT}}

\* the form part of an upload: its Content-Disposition and Content-Type lines
FormPartText(filename, type, sep) ==
    [hdr |-> <<T_ContentDisposition \o COLON_SP \o <<"f", "o", "r", "m", "-", "d", "a", "t", "a">>
                  \o SEMI_SP \o T_filename \o EQ \o DQUOTE \o filename \o DQUOTE,
               T_ContentType \o COLON_SP \o type>>,
     sep |-> sep, payload |-> <<"h", "i">>, crlf |-> TRUE]

UploadRequest(ctype, parts) ==
    RequestOf(POST, SLASH \o T_upload, CRLF \o T_ContentType \o COLON_SP \o ctype,
              EncodeUpload([pre |-> <<>>, parts |-> parts, closed |-> TRUE], <<"X">>))

MultipartX == T_multipartFormData \o SEMI_SP \o T_boundary \o EQ \o <<"X">>

UploadRequests ==
    {UploadRequest(MultipartX, <<FormPartText(f, t, s)>>) :
        f \in {A_TXT, <<"a">>}, t \in {T_textPlain, <<"x", "/", "y">>}, s \in BOOLEAN}
    \cup {UploadRequest(MultipartX, <<>>),
          UploadRequest(T_textPlain, <<>>),
          UploadRequest(T_multipartFormData, <<FormPartText(A_TXT, T_textPlain, TRUE)>>)}

Requests ==
    {PrimeRequest(t) : t \in NumberTexts}
    \cup {RenameRequest(o, n) : o \in FileNames, n \in FileNames}
    \cup {RemoveRequest(f) : f \in FileNames}
    \cup {DownloadRequest(f) : f \in FileNames}
    \cup BareRequests
    \cup UploadRequests

\* The peer writes whole lines: what one recv hands over ends at the end of a
\* line or at the end of the stream.
ChunkEnds(bytes) ==
    {n \in 1..Len(bytes) :
        n = Len(bytes) \/ (n >= 2 /\ bytes[n - 1] = "\r" /\ bytes[n] = "\n")}

----------------------------------------------------------------------------
(* TCPServer.start and TCPServer.recvall                                   *)

BUFF_SIZE == 4096

\* A variant that joins the fragments last first.
RECURSIVE JoinFragmentsReversed(_)
JoinFragmentsReversed(list) ==
    IF list = <<>> THEN <<>> ELSE JoinFragmentsReversed(Tail(list)) \o Head(list)

\* data = b''.join(fragments)
JoinFragments(list) == join(list)

Init ==
    /\ pc = "accept"
    /\ sockets = <<>>
    /\ stream = <<>>
    /\ rcvd = 0
    /\ fragments = <<>>
    /\ lastRecv = "none"
    /\ data = <<>>
    /\ response = NotCalled
    /\ files \in {EmptyDict, Put(EmptyDict, A_TXT, <<"h", "e", "y">>)}
    /\ request = NotCalled
    /\ upload = <<>>
    /\ boundary = <<>>
    /\ fd = NotCalled

\* conn, addr = s.accept(); recvall starts with no fragments.  The locals of
\* the previous pass (data, response) are dead here and are cleared.
Accept ==
    /\ pc = "accept"
    /\ Len(sockets) < MaxConns
    /\ \E bytes \in Requests : stream' = bytes
    /\ sockets' = Append(sockets, "open")
    /\ rcvd' = 0
    /\ fragments' = <<>>
    /\ lastRecv' = "none"
    /\ data' = <<>>
    /\ response' = NotCalled
    /\ pc' = "recv"
    /\ UNCHANGED <<files, request, upload, boundary, fd>>

\* chunk = sock.recv(BUFF_SIZE) returns bytes: fragments.append(chunk)
RecvChunk ==
    /\ pc = "recv"
    /\ Len(fragments) < MaxChunks
    /\ \E n \in ChunkEnds(stream) :
        /\ rcvd < n
        /\ n - rcvd <= BUFF_SIZE
        /\ fragments' = Append(fragments, SubSeq(stream, rcvd + 1, n))
        /\ rcvd' = n
    /\ lastRecv' = "chunk"
    /\ UNCHANGED <<pc, sockets, stream, data, response, files, request, upload,
                   boundary, fd>>

\* sock.recv raises TimeoutError: chunk = None, break, return the joined data
RecvTimeout ==
    /\ pc = "recv"
    /\ lastRecv' = "timeout"
    /\ data' = JoinFragments(fragments)
    /\ pc' = "handle"
    /\ UNCHANGED <<sockets, stream, rcvd, fragments, response, files, request,
                   upload, boundary, fd>>

\* sock.recv returns b'' (the peer has sent everything and shut down): break
RecvEOF ==
    /\ pc = "recv"
    /\ rcvd = Len(stream)
    /\ lastRecv' = "eof"
    /\ data' = JoinFragments(fragments)
    /\ pc' = "handle"
    /\ UNCHANGED <<sockets, stream, rcvd, fragments, response, files, request,
                   upload, boundary, fd>>

\* sock.recv raises another OSError (ConnectionResetError when the peer resets
\* the connection): recvall catches TimeoutError only and start calls recvall
\* outside its try, so the exception leaves start.
RecvError ==
    /\ pc = "recv"
    /\ lastRecv' = "error"
    /\ pc' = "terminated"
    /\ UNCHANGED <<sockets, stream, rcvd, fragments, data, response, files,
                   request, upload, boundary, fd>>

\* response = self.handle_request(data), inside try ... except Exception
HandleRequest ==
    /\ pc = "handle"
    /\ \E out \in {handle_request(data, files)} :
           /\ response' = [exc |-> out.exc, val |-> out.val]
           /\ files' = out.files
           /\ pc' = IF out.exc = "none" THEN "send" ELSE "accept"
    /\ UNCHANGED <<sockets, stream, rcvd, fragments, lastRecv, data, request,
                   upload, boundary, fd>>

\* conn.sendall(response)
SendAll ==
    /\ pc = "send"
    /\ pc' = "close"
    /\ UNCHANGED <<sockets, stream, rcvd, fragments, lastRecv, data, response,
                   files, request, upload, boundary, fd>>

\* conn.sendall raises (the peer is gone): except Exception, back to accept
SendFails ==
    /\ pc = "send"
    /\ pc' = "accept"
    /\ UNCHANGED <<sockets, stream, rcvd, fragments, lastRecv, data, response,
                   files, request, upload, boundary, fd>>

\* conn.close()
Close ==
    /\ pc = "close"
    /\ sockets' = [sockets EXCEPT ![Len(sockets)] = "closed"]
    /\ pc' = "accept"
    /\ UNCHANGED <<stream, rcvd, fragments, lastRecv, data, response, files,
                   request, upload, boundary, fd>>

Next ==
    \/ Accept
    \/ RecvChunk
    \/ RecvTimeout
    \/ RecvEOF
    \/ RecvError
    \/ HandleRequest
    \/ SendAll
    \/ SendFails
    \/ Close

Spec == Init /\ [][Next]_vars

----------------------------------------------------------------------------
(* The claims about the accept loop and the handlers.                      *)

\* C1: no failure while handling a connection terminates the accept loop:
\* the server is always in the loop, on its way back to accept.
C1_LoopNeverTerminates == pc # "terminated"

\* C2: whenever the loop is back at accept, every connection accepted so far
\* has been closed, on every path through the loop body.
C2_ClosedBeforeNextAccept ==
    pc = "accept" => \A c \in DOMAIN sockets : sockets[c] = "closed"

StatusLine200 == HTTP11 \o SP \o <<"2", "0", "0">> \o SP \o T_OK \o CRLF
StatusLine400 == HTTP11 \o SP \o <<"4", "0", "0">> \o SP \o T_BadRequest \o CRLF

\* the query parameters each of the four handlers reads
RequiredParams(method, endpoint) ==
    IF method = GET /\ endpoint = T_isPrime THEN {T_number}
    ELSE IF method = PUT /\ endpoint = T_rename THEN {T_oldFileName, T_newName}
    ELSE IF method = DELETE /\ endpoint = T_remove THEN {T_fileName}
    ELSE IF method = GET /\ endpoint = T_download THEN {T_fileName}
    ELSE {}

LacksParam(req) ==
    /\ RequiredParams(req.method, req.endpoint) # {}
    /\ \/ req.qparams.isNone
       \/ \E k \in RequiredParams(req.method, req.endpoint) : k \notin DOMAIN req.qparams.v

\* C8: a request for isPrime, rename, remove or download that lacks a required
\* query parameter (or has no query string at all) gets a 400 response; the
\* handler does not raise.
C8_MissingParameterIs400 ==
    response # NotCalled =>
        \A req \in {HTTPRequest(data)} :
            (req.exc = "none" /\ LacksParam(req.val)) =>
                (response.exc = "none" /\ response.val.line = StatusLine400)

Succeeded(resp) ==
    \/ resp.body.kind = "bytes"
    \/ /\ resp.body.kind = "json"
       /\ "message" \in DOMAIN resp.body.dict
       /\ resp.body.dict.message \in
              {"Filename successfully changed", "File successfully deleted"}

\* C9: a response that reports a performed rename, removal or download has
\* the response line HTTP/1.1 200 OK.
C9_SuccessIs200 ==
    (response.exc = "none" /\ Succeeded(response.val)) =>
        response.val.line = StatusLine200

IsPrime(n) == n >= 2 /\ \A d \in 2..(n - 1) : n % d # 0

\* C10: for every integer n given as `number`, handle_is_prime returns a 200
\* response whose isPrime field is true exactly when n is prime.
C10_IsPrimeExact ==
    response # NotCalled =>
        \A n \in Numbers :
            data = PrimeRequest(str(n)) =>
                /\ response.exc = "none"
                /\ response.val.line = StatusLine200
                /\ response.val.body.dict = [number |-> n, isPrime |-> IsPrime(n)]

====
